---- MODULE Spec2Model ----
(***************************************************************************)
(* A state-machine model of src/src/App.tsx (the ISO-9000 / Lumina page).  *)
(*                                                                         *)
(* The parts of the page share the module and its variables; each         *)
(* specification lets one part run and leaves the others as first         *)
(* rendered:                                                               *)
(*   - the root App with FlashIntro and HUD (Spec; SpecPage adds the      *)
(*     scrolling of the page);                                             *)
(*   - CameraStage's scroll-driven motion values (SpecTransform and       *)
(*     SpecStage) and viewport-triggered text blocks (SpecBlocks);        *)
(*   - Gallery's reveals (SpecGallery), parallax (SpecParallax) and       *)
(*     rendered layout (SpecLayout);                                       *)
(*   - BackgroundElements' rendered props (SpecBackground).               *)
(*                                                                         *)
(* Numbers are fixed point.  Scroll progress is counted in hundredths      *)
(* (ProgressOne = 1.0), derived motion values in thousandths (1000 = 1.0,  *)
(* -5000 = -5 degrees) and the spring state in SubUnits per thousandth.    *)
(* Text is a sequence of one-character strings.                            *)
(***************************************************************************)
EXTENDS Integers, Sequences, FiniteSets

VARIABLES
    mounts,          \* how many times the root App has been mounted
    appMounted,      \* the App tree (FlashIntro, HUD, content) is mounted
    isLoaded,        \* App: const [isLoaded, setIsLoaded] = useState(false)
    introMounted,    \* FlashIntro is rendered inside AnimatePresence
    introAnim,       \* FlashIntro's fade: "delay", "fading", "done", "none"
    onCompleteCalls, \* calls of onComplete made by the mounted FlashIntro
    contentOpacity,  \* target opacity (percent) of the content region's class
    time,            \* HUD: const [time, setTime] = useState(...)
    coords,          \* HUD: const [coords, setCoords] = useState({x:0,y:0})
    timers,          \* ids of the live setInterval timers
    listeners,       \* ids of the functions listening to window 'mousemove'
    timer,           \* the timer id captured by HUD's effect closure
    handleMouseMove, \* the listener id captured by HUD's effect closure
    now,             \* wall clock, in seconds
    posX, posY,      \* the text HUD renders for the POS_X / POS_Y lines
    clockText,       \* the text HUD renders for {time}
    lastMove,        \* the last mousemove event HUD's listener received
    ticks,           \* interval callbacks run so far
    renders,         \* re-renders of App forced without a state change
    tree,            \* the components App has mounted in the document
    introPointerEvents, \* pointer-events of the intro overlay, or "absent"
    scrollYProgress, \* CameraStage: useScroll().scrollYProgress
    scale, rotate, y, opacity,   \* CameraStage: the useTransform values
    springScale, springRotate,   \* CameraStage: the useSpring values
    springVel,       \* velocities of the two springs <<scale, rotate>>
    scrolls,         \* scroll changes so far
    yOffset,         \* Gallery: the useTransform value of each card
    hovered,         \* Gallery: the card under the pointer, 0 for none
    cardLayout,      \* Gallery: span and margins rendered for each card
    cardOverlay,     \* Gallery: overlay text rendered for each card
    aperture,        \* BackgroundElements: props of the three aperture glyphs
    focus,           \* BackgroundElements: props of the four focus reticles
    dataStrings,     \* BackgroundElements: props of the four data strings
    blocks,          \* CameraStage: whileInView state of the four text blocks
    cards            \* Gallery: whileInView state of the six image cards

appVars == <<mounts, appMounted, isLoaded, introMounted, introAnim,
             onCompleteCalls, contentOpacity, time, coords, timers, listeners,
             timer, handleMouseMove, now, posX, posY, clockText, lastMove,
             ticks, renders, tree, introPointerEvents>>

stageVars == <<scrollYProgress, scale, rotate, y, opacity, springScale,
               springRotate, springVel, scrolls, yOffset>>

viewVars == <<blocks, cards, hovered>>

renderVars == <<cardLayout, cardOverlay, aperture, focus, dataStrings>>

vars == <<appVars, stageVars, viewVars, renderVars>>

-----------------------------------------------------------------------------
(* Bounds of the model. *)

MaxMounts == 2
MaxNow == 2
MaxTicks == 2
MaxRenders == 1
MaxScrolls == 2
MaxEntries == 2
\* animation frames per second, and spring resolution per thousandth
FramesPerSecond == 20
SubUnits == 1000

\* clientX / clientY values carried by the mousemove events of the model
PointerValues == {-5, 0, 300, 512, 12345}

\* scroll positions (hundredths) the page is scrolled to in SpecStage
ScrollStops == {0, 50, 100}

\* lastMove before HUD's listener has received any event
NoEvent == [seen |-> FALSE, x |-> 0, y |-> 0]

-----------------------------------------------------------------------------
(* Text helpers: Number.prototype.toString, String.prototype.padStart and  *)
(* Date.prototype.toLocaleTimeString.                                      *)

Digit(d) == CASE d = 0 -> "0" [] d = 1 -> "1" [] d = 2 -> "2" [] d = 3 -> "3"
              [] d = 4 -> "4" [] d = 5 -> "5" [] d = 6 -> "6" [] d = 7 -> "7"
              [] d = 8 -> "8" [] d = 9 -> "9"

RECURSIVE NatToString(_)
NatToString(n) ==
    IF n < 10 THEN <<Digit(n)>>
    ELSE Append(NatToString(n \div 10), Digit(n % 10))

\* (n).toString() of an integer: a minus sign, then the decimal digits
toString(n) == IF n < 0 THEN <<"-">> \o NatToString(-n) ELSE NatToString(n)

RECURSIVE padStart(_, _, _)
\* s.padStart(targetLength, c) for a one-character pad string c
padStart(s, targetLength, c) ==
    IF Len(s) >= targetLength THEN s
    ELSE padStart(<<c>> \o s, targetLength, c)

\* toLocaleTimeString of the wall clock, as HH:MM:SS
toLocaleTimeString(t) ==
    LET s == t % 86400
    IN  padStart(toString(s \div 3600), 2, "0") \o <<":">> \o
        padStart(toString((s \div 60) % 60), 2, "0") \o <<":">> \o
        padStart(toString(s % 60), 2, "0")

-----------------------------------------------------------------------------
(* What the components render from their state. *)

\* App: {!isLoaded && <FlashIntro .../>}
RenderFlashIntro(loaded) == ~loaded

\* variant: the two classes swapped
ContentOpacityClassSwapped(loaded) == IF loaded THEN 0 ELSE 100

\* App: isLoaded ? "opacity-100" : "opacity-0"
ContentOpacityClass(loaded) == IF loaded THEN 100 ELSE 0

\* variant: the POS_X line reading the other axis
RenderPosXOfY(c) ==
    <<"P", "O", "S", "_", "X", ":", " ">> \o padStart(toString(c.y), 4, "0")

\* App: background, HUD and the content sections, rendered unconditionally
AlwaysRendered ==
    {"BackgroundElements", "HUD", "CameraStage", "AboutSection",
     "SpecsSection", "Gallery", "ContactSection", "Footer"}

\* variant: the content sections rendered only once loaded
RenderChildrenGated(loaded) ==
    IF loaded THEN AlwaysRendered
    ELSE {"FlashIntro", "BackgroundElements", "HUD"}

\* App: the children of <main> for a value of isLoaded
RenderChildren(loaded) ==
    AlwaysRendered \cup (IF RenderFlashIntro(loaded) THEN {"FlashIntro"} ELSE {})

\* FlashIntro: className "... pointer-events-none ..."
FlashIntroPointerEvents == "none"

\* pointer-events of the intro overlay as rendered, "absent" without overlay
RenderOverlay(loaded) ==
    IF RenderFlashIntro(loaded) THEN FlashIntroPointerEvents ELSE "absent"

\* HUD: POS_X: {coords.x.toString().padStart(4, '0')}
RenderPosX(c) ==
    <<"P", "O", "S", "_", "X", ":", " ">> \o padStart(toString(c.x), 4, "0")

\* HUD: POS_Y: {coords.y.toString().padStart(4, '0')}
RenderPosY(c) ==
    <<"P", "O", "S", "_", "Y", ":", " ">> \o padStart(toString(c.y), 4, "0")

\* variant: the clock text computed from a new Date() on every render
RenderClockFresh(t, wallClock) == toLocaleTimeString(wallClock)

\* HUD: <span>{time}</span>; the useState initialiser is ignored on re-render
RenderClock(t, wallClock) == t

-----------------------------------------------------------------------------
(* The root App, FlashIntro and HUD. *)

\* variant: the flag initialised as already loaded
UseStateIsLoadedTrue == TRUE

\* App: useState(false)
UseStateIsLoaded == FALSE

\* HUD: useState({ x: 0, y: 0 })
UseStateCoords == [x |-> 0, y |-> 0]

\* FlashIntro: the fade waits for `delay` when the component mounts
FlashIntroMount(rendered) == IF rendered THEN "delay" ELSE "none"

\* HUD effect: const timer = setInterval(..., 1000)
SetInterval(ts, id) == ts \cup {id}

\* HUD effect: window.addEventListener('mousemove', handleMouseMove)
AddEventListener(ls, id) == ls \cup {id}

\* variant: a cleanup that forgets the timer
ClearIntervalForgotten(ts, id) == ts

\* HUD cleanup: clearInterval(timer)
ClearInterval(ts, id) == ts \ {id}

\* HUD cleanup: window.removeEventListener('mousemove', handleMouseMove)
RemoveEventListener(ls, id) == ls \ {id}

\* handleMouseMove: setCoords({ x: e.clientX, y: e.clientY })
HandleMouseMove(e) == [x |-> e.x, y |-> e.y]

\* The state right after the first mount of App.
InitApp ==
    /\ mounts = 1
    /\ appMounted = TRUE
    /\ isLoaded = UseStateIsLoaded
    /\ introMounted = RenderFlashIntro(UseStateIsLoaded)
    /\ introAnim = FlashIntroMount(RenderFlashIntro(UseStateIsLoaded))
    /\ onCompleteCalls = 0
    /\ contentOpacity = ContentOpacityClass(UseStateIsLoaded)
    /\ now = 0
    /\ time = toLocaleTimeString(0)
    /\ coords = UseStateCoords
    /\ timers = SetInterval({}, 1)
    /\ listeners = AddEventListener({}, 1)
    /\ timer = 1
    /\ handleMouseMove = 1
    /\ posX = RenderPosX(UseStateCoords)
    /\ posY = RenderPosY(UseStateCoords)
    /\ clockText = RenderClock(toLocaleTimeString(0), 0)
    /\ lastMove = NoEvent
    /\ ticks = 0
    /\ renders = 0
    /\ tree = RenderChildren(UseStateIsLoaded)
    /\ introPointerEvents = RenderOverlay(UseStateIsLoaded)

\* The host mounts App again: fresh component state, HUD's effect runs.
AppMount ==
    /\ ~appMounted
    /\ mounts < MaxMounts
    /\ mounts' = mounts + 1
    /\ appMounted' = TRUE
    /\ isLoaded' = UseStateIsLoaded
    /\ introMounted' = RenderFlashIntro(isLoaded')
    /\ introAnim' = FlashIntroMount(introMounted')
    /\ onCompleteCalls' = 0
    /\ contentOpacity' = ContentOpacityClass(isLoaded')
    /\ time' = toLocaleTimeString(now)
    /\ coords' = UseStateCoords
    /\ timer' = mounts'
    /\ handleMouseMove' = mounts'
    /\ timers' = SetInterval(timers, timer')
    /\ listeners' = AddEventListener(listeners, handleMouseMove')
    /\ posX' = RenderPosX(coords')
    /\ posY' = RenderPosY(coords')
    /\ clockText' = RenderClock(time', now)
    /\ lastMove' = NoEvent
    /\ tree' = RenderChildren(isLoaded')
    /\ introPointerEvents' = RenderOverlay(isLoaded')
    /\ UNCHANGED <<now, ticks, renders, stageVars, viewVars,
                   renderVars>>

\* The host unmounts App: HUD's cleanup runs, FlashIntro's fade is dropped.
AppUnmount ==
    /\ appMounted
    /\ appMounted' = FALSE
    /\ introMounted' = FALSE
    /\ introAnim' = IF introAnim = "done" THEN "done" ELSE "none"
    /\ timers' = ClearInterval(timers, timer)
    /\ listeners' = RemoveEventListener(listeners, handleMouseMove)
    /\ tree' = {}
    /\ introPointerEvents' = "absent"
    /\ UNCHANGED <<mounts, isLoaded, onCompleteCalls, contentOpacity, time,
                   coords, timer, handleMouseMove, now, posX, posY, clockText,
                   lastMove, ticks, renders, stageVars, viewVars,
                   renderVars>>

\* variant: the callback wired to the start of the fade
OnAnimationStart(anim) == anim = "fading"

\* FlashIntro: onAnimationComplete={onComplete} runs when the animation to
\* opacity 0 has finished, not when it starts
OnAnimationComplete(anim) == anim = "done"

\* FlashIntro's fade moves on to phase `next`; when that completes the fade,
\* onComplete runs () => setIsLoaded(true) and App renders again.
IntroAdvance(next) ==
    /\ introAnim' = next
    /\ IF OnAnimationComplete(next)
       THEN /\ onCompleteCalls' = onCompleteCalls + 1
            /\ isLoaded' = TRUE
       ELSE UNCHANGED <<onCompleteCalls, isLoaded>>
    /\ introMounted' = RenderFlashIntro(isLoaded')
    /\ contentOpacity' = ContentOpacityClass(isLoaded')
    /\ tree' = RenderChildren(isLoaded')
    /\ introPointerEvents' = RenderOverlay(isLoaded')
    /\ UNCHANGED <<mounts, appMounted, time, coords, timers, listeners, timer,
                   handleMouseMove, now, posX, posY, clockText, lastMove,
                   ticks, renders, stageVars, viewVars,
                   renderVars>>

\* FlashIntro: transition delay 0.5 elapses, the 1.5 s fade starts.
IntroDelayElapsed ==
    /\ introMounted
    /\ introAnim = "delay"
    /\ IntroAdvance("fading")

\* FlashIntro: the fade reaches opacity 0.
IntroFadeFinish ==
    /\ introMounted
    /\ introAnim = "fading"
    /\ IntroAdvance("done")

\* The wall clock advances by a second.
TimeAdvance ==
    /\ now < MaxNow
    /\ now' = now + 1
    /\ UNCHANGED <<mounts, appMounted, isLoaded, introMounted, introAnim, tree,
                   introPointerEvents,
                   onCompleteCalls, contentOpacity, time, coords, timers,
                   listeners, timer, handleMouseMove, posX, posY, clockText,
                   lastMove, ticks, renders, stageVars, viewVars,
                   renderVars>>

\* A live interval fires: () => setTime(new Date().toLocaleTimeString()),
\* then HUD renders again.
IntervalFire(id) ==
    /\ id \in timers
    /\ ticks < MaxTicks
    /\ ticks' = ticks + 1
    /\ time' = toLocaleTimeString(now)
    /\ clockText' = RenderClock(time', now)
    /\ UNCHANGED <<mounts, appMounted, isLoaded, introMounted, introAnim, tree,
                   introPointerEvents,
                   onCompleteCalls, contentOpacity, coords, timers, listeners,
                   timer, handleMouseMove, now, posX, posY, lastMove, renders,
                   stageVars, viewVars,
                   renderVars>>

\* variant: the mousemove handler also stamps the clock
MouseMoveStampsClock(id, e) ==
    /\ id \in listeners
    /\ lastMove' = [seen |-> TRUE, x |-> e.x, y |-> e.y]
    /\ coords' = HandleMouseMove(e)
    /\ time' = toLocaleTimeString(now)
    /\ posX' = RenderPosX(coords')
    /\ posY' = RenderPosY(coords')
    /\ clockText' = RenderClock(time', now)
    /\ UNCHANGED <<mounts, appMounted, isLoaded, introMounted, introAnim, tree,
                   introPointerEvents,
                   onCompleteCalls, contentOpacity, timers, listeners,
                   timer, handleMouseMove, now, ticks, renders, stageVars, viewVars,
                   renderVars>>

\* The window dispatches mousemove to a registered listener, then HUD
\* renders again.
MouseMove(id, e) ==
    /\ id \in listeners
    /\ lastMove' = [seen |-> TRUE, x |-> e.x, y |-> e.y]
    /\ coords' = HandleMouseMove(e)
    /\ posX' = RenderPosX(coords')
    /\ posY' = RenderPosY(coords')
    /\ clockText' = RenderClock(time, now)
    /\ UNCHANGED <<mounts, appMounted, isLoaded, introMounted, introAnim, tree,
                   introPointerEvents,
                   onCompleteCalls, contentOpacity, time, timers, listeners,
                   timer, handleMouseMove, now, ticks, renders, stageVars, viewVars,
                   renderVars>>

\* App renders again without a state change: props and closures are rebuilt,
\* hook state is kept, the running fade is not restarted.
Rerender ==
    /\ appMounted
    /\ renders < MaxRenders
    /\ renders' = renders + 1
    /\ introMounted' = RenderFlashIntro(isLoaded)
    /\ contentOpacity' = ContentOpacityClass(isLoaded)
    /\ tree' = RenderChildren(isLoaded)
    /\ introPointerEvents' = RenderOverlay(isLoaded)
    /\ posX' = RenderPosX(coords)
    /\ posY' = RenderPosY(coords)
    /\ clockText' = RenderClock(time, now)
    /\ UNCHANGED <<mounts, appMounted, isLoaded, introAnim, onCompleteCalls,
                   time, coords, timers, listeners, timer, handleMouseMove,
                   now, lastMove, ticks, stageVars, viewVars,
                   renderVars>>

-----------------------------------------------------------------------------
(* CameraStage: useScroll, useTransform and useSpring. *)

\* scroll progress 1.0, in hundredths: the upper end of the input ranges
ProgressOne == 100

Clamp(lo, hi, v) == IF v < lo THEN lo ELSE IF v > hi THEN hi ELSE v

RECURSIVE FindSegment(_, _, _)
\* interpolate's loop: for (; i < input.length - 2; i++) if (v < input[i+1]) break
\* (indices from 1 here)
FindSegment(input, v, i) ==
    IF i < Len(input) - 1 /\ ~(v < input[i + 1])
    THEN FindSegment(input, v, i + 1)
    ELSE i

\* useTransform(value, input, output): clamped piecewise-linear interpolation,
\* mix(from, to, progress(input[i], input[i+1], v))
Interpolate(input, output, v) ==
    LET c == Clamp(input[1], input[Len(input)], v)
        i == FindSegment(input, c, 1)
    IN  output[i] +
        ((output[i + 1] - output[i]) * (c - input[i]))
            \div (input[i + 1] - input[i])

\* variant: the scale range ending at 0.9
ScaleOfShallow(p) == Interpolate(<<0, ProgressOne>>, <<1000, 900>>, p)

\* const scale = useTransform(scrollYProgress, [0, 1], [1, 0.8])
ScaleOf(p) == Interpolate(<<0, ProgressOne>>, <<1000, 800>>, p)

\* const rotate = useTransform(scrollYProgress, [0, 1], [0, -5])
RotateOf(p) == Interpolate(<<0, ProgressOne>>, <<0, -5000>>, p)

\* const y = useTransform(scrollYProgress, [0, 1], [0, -50])
YOf(p) == Interpolate(<<0, ProgressOne>>, <<0, -50000>>, p)

\* variant: the fade starting at half scroll
OpacityOfEarlyFade(p) ==
    Interpolate(<<0, 50, ProgressOne>>, <<1000, 1000, 0>>, p)

\* const opacity = useTransform(scrollYProgress, [0, 0.8, 1], [1, 1, 0])
OpacityOf(p) == Interpolate(<<0, 80, ProgressOne>>, <<1000, 1000, 0>>, p)

\* Gallery: the parallax field of the six image records
Parallax == <<-50, 80, -30, 120, -60, 40>>

\* variant: every card moved by the first record's factor
YOffsetOfFirst(i, p) ==
    Interpolate(<<0, ProgressOne>>, <<0, Parallax[1] * 1000>>, p)

\* const yOffset = useTransform(scrollYProgress, [0, 1], [0, img.parallax])
YOffsetOf(i, p) ==
    Interpolate(<<0, ProgressOne>>, <<0, Parallax[i] * 1000>>, p)

\* useSpring(scale, ...): the value the scale spring is pulled to
SpringScaleTarget == scale * SubUnits

\* variant: the rotation spring fed from the scale transform
SpringRotateTargetFromScale == scale * SubUnits

\* useSpring(rotate, ...): the value the rotation spring is pulled to
SpringRotateTarget == rotate * SubUnits

\* { stiffness: 100, damping: 30 }, mass 1
SpringStiffness == 100
SpringDamping == 30

Abs(a) == IF a < 0 THEN -a ELSE a

\* division rounding towards zero
TDiv(a, b) == IF a < 0 THEN -((-a) \div b) ELSE a \div b

\* One animation frame of a spring at position x with velocity v pulled to
\* target: acceleration stiffness * (target - x) - damping * v over 1/fps s.
\* The animation ends, exactly on the target, once the speed is at most
\* restSpeed (0.01 per second) and the distance at most restDelta (0.001).
SpringStep(x, v, target) ==
    LET a  == SpringStiffness * (target - x) - SpringDamping * v
        v1 == v + TDiv(a, FramesPerSecond)
        x1 == x + TDiv(v1, FramesPerSecond)
    IN  IF Abs(v1) <= 10 * SubUnits /\ Abs(target - x1) <= SubUnits
        THEN <<target, 0>>
        ELSE <<x1, v1>>

SpringActive ==
    \/ springScale # SpringScaleTarget
    \/ springRotate # SpringRotateTarget
    \/ springVel # <<0, 0>>

InitStage ==
    /\ scrollYProgress = 0
    /\ scale = ScaleOf(0)
    /\ rotate = RotateOf(0)
    /\ y = YOf(0)
    /\ opacity = OpacityOf(0)
    /\ springScale = ScaleOf(0) * SubUnits
    /\ springRotate = RotateOf(0) * SubUnits
    /\ springVel = <<0, 0>>
    /\ scrolls = 0
    /\ yOffset = [i \in 1..6 |-> YOffsetOf(i, 0)]

\* The page is scrolled and scrollYProgress changes to q: the four transforms
\* follow at once, the springs keep position and velocity and are re-aimed.
Scroll(q) ==
    /\ scrolls < MaxScrolls
    /\ q # scrollYProgress
    /\ scrolls' = scrolls + 1
    /\ scrollYProgress' = q
    /\ scale' = ScaleOf(q)
    /\ rotate' = RotateOf(q)
    /\ y' = YOf(q)
    /\ opacity' = OpacityOf(q)
    /\ yOffset' = [i \in 1..6 |-> YOffsetOf(i, q)]
    /\ UNCHANGED <<springScale, springRotate, springVel, appVars, viewVars,
                   renderVars>>

\* An animation frame while a spring is running.
Frame ==
    /\ SpringActive
    /\ LET s == SpringStep(springScale, springVel[1], SpringScaleTarget)
           r == SpringStep(springRotate, springVel[2], SpringRotateTarget)
       IN  /\ springScale' = s[1]
           /\ springRotate' = r[1]
           /\ springVel' = <<s[2], r[2]>>
    /\ UNCHANGED <<scrollYProgress, scale, rotate, y, opacity, scrolls, yOffset,
                   appVars, viewVars,
                   renderVars>>

-----------------------------------------------------------------------------
(* whileInView: CameraStage's text blocks and Gallery's image cards. *)

\* CameraStage's blocks with initial / whileInView props
Blocks == {"About_Lumina", "LENS_MOUNT", "SENSOR_TECH", "Optic_Specs"}

\* Gallery: images.map((img, i) => ...), six records
Cards == 1..6

\* CameraStage's blocks pass no viewport prop: once is off
ViewportOnceBlocks == FALSE

\* variant: the cards without the once option
ViewportOnceMissing == FALSE

\* Gallery: viewport={{ once: true, margin: "-10%" }}
ViewportOnceCards == TRUE

\* An element before it has ever been in view: it shows its `initial` values.
\* active: the whileInView target is applied; plays: times the transition to
\* the whileInView target has been started; entries: times it came into view.
NotYetInView ==
    [isInView |-> FALSE, hasEnteredView |-> FALSE, active |-> FALSE,
     plays |-> 0, entries |-> 0]

\* The intersection callback of an element with whileInView: with once, a
\* leave after the first entry is ignored; otherwise the whileInView target is
\* switched on when the element comes into view and off (back to `initial`)
\* when it leaves.
OnIntersect(st, once, isIntersecting) ==
    IF st.isInView = isIntersecting THEN st
    ELSE LET seen == [st EXCEPT !.isInView = isIntersecting,
                                !.entries = IF isIntersecting THEN @ + 1 ELSE @]
         IN  IF once /\ ~isIntersecting /\ st.hasEnteredView
             THEN seen
             ELSE [seen EXCEPT
                     !.hasEnteredView = @ \/ isIntersecting,
                     !.active = isIntersecting,
                     !.plays = IF isIntersecting /\ ~st.active
                               THEN @ + 1 ELSE @]

InitView ==
    /\ blocks = [b \in Blocks |-> NotYetInView]
    /\ cards = [i \in Cards |-> NotYetInView]
    /\ hovered = 0

\* A text block of CameraStage comes into view or leaves it.
BlockIntersect(b, isIntersecting) ==
    /\ blocks[b].isInView # isIntersecting
    /\ isIntersecting => blocks[b].entries < MaxEntries
    /\ blocks' = [blocks EXCEPT
                    ![b] = OnIntersect(@, ViewportOnceBlocks, isIntersecting)]
    /\ UNCHANGED <<cards, hovered, appVars, stageVars, renderVars>>

\* An image card of Gallery comes into view or leaves it.
CardIntersect(i, isIntersecting) ==
    /\ cards[i].isInView # isIntersecting
    /\ isIntersecting => cards[i].entries < MaxEntries
    /\ cards' = [cards EXCEPT
                   ![i] = OnIntersect(@, ViewportOnceCards, isIntersecting)]
    /\ UNCHANGED <<blocks, hovered, appVars, stageVars, renderVars>>

\* The pointer moves onto card i (whileHover, group-hover), or off the cards
\* for i = 0.
Hover(i) ==
    /\ hovered # i
    /\ hovered' = i
    /\ UNCHANGED <<blocks, cards, appVars, stageVars, renderVars>>

-----------------------------------------------------------------------------
(* Gallery's render: layout classes and the random overlay text.  A draw   *)
(* of Math.random() is given in hundredths where it is scaled, and as its  *)
(* base-36 digits after the point where it is printed.                     *)

\* the three Math.random() results of one card in one render
OverlayDraws ==
    { [ref |-> <<0, 0, 0, 0, 0, 0, 0, 0>>, lat |-> 0, lon |-> 0],
      [ref |-> <<18, 5, 29, 0, 11, 35, 10, 3>>, lat |-> 50, lon |-> 25],
      [ref |-> <<35, 35, 35, 35, 35, 35, 35, 20>>, lat |-> 99, lon |-> 99] }

\* the draws of the first render of the model
FirstDraw == [ref |-> <<0, 0, 0, 0, 0, 0, 0, 0>>, lat |-> 0, lon |-> 0]

\* Gallery: the size field of the six image records
Size == <<"large", "small", "small", "large", "small", "medium">>

Base36Digits ==
    <<"0", "1", "2", "3", "4", "5", "6", "7", "8", "9", "a", "b", "c", "d",
      "e", "f", "g", "h", "i", "j", "k", "l", "m", "n", "o", "p", "q", "r",
      "s", "t", "u", "v", "w", "x", "y", "z">>

UpperCase ==
    <<"0", "1", "2", "3", "4", "5", "6", "7", "8", "9", "A", "B", "C", "D",
      "E", "F", "G", "H", "I", "J", "K", "L", "M", "N", "O", "P", "Q", "R",
      "S", "T", "U", "V", "W", "X", "Y", "Z">>

RECURSIVE TrimZeros(_)
\* the digits of a fraction without its trailing zeros
TrimZeros(ds) ==
    IF ds = <<>> \/ ds[Len(ds)] # 0 THEN ds
    ELSE TrimZeros(SubSeq(ds, 1, Len(ds) - 1))

\* (r).toString(36) of a draw 0 <= r < 1 with base-36 digits ds
toString36(ds) ==
    LET kept == TrimZeros(ds)
    IN  IF kept = <<>> THEN <<"0">>
        ELSE <<"0", ".">> \o [k \in 1..Len(kept) |-> Base36Digits[kept[k] + 1]]

\* s.substring(start)
substring(s, start) == SubSeq(s, start + 1, Len(s))

\* s.toUpperCase()
toUpperCase(s) ==
    [k \in 1..Len(s) |->
        IF \E d \in 1..36 : Base36Digits[d] = s[k]
        THEN UpperCase[CHOOSE d \in 1..36 : Base36Digits[d] = s[k]]
        ELSE s[k]]

\* img.size === "large" ? "md:col-span-8" : img.size === "medium" ?
\* "md:col-span-6" : "md:col-span-4"
ColSpan(size) ==
    IF size = "large" THEN 8 ELSE IF size = "medium" THEN 6 ELSE 4

\* i % 3 === 0 ? "md:ml-0" : i % 3 === 1 ? "md:ml-12" : "md:ml-24"
MarginLeft(i) == IF i % 3 = 0 THEN 0 ELSE IF i % 3 = 1 THEN 12 ELSE 24

\* variant: the parity test the other way round
MarginTopEvenUp(i) == IF i % 2 = 0 THEN -20 ELSE 20

\* i % 2 !== 0 ? "md:-mt-20" : "md:mt-20"
MarginTop(i) == IF i % 2 # 0 THEN -20 ELSE 20

\* the className of card c, whose index in images.map is i = c - 1
RenderLayout(c) ==
    [span |-> ColSpan(Size[c]), ml |-> MarginLeft(c - 1),
     mt |-> MarginTop(c - 1)]

\* REF_ID: {Math.random().toString(36).substring(7).toUpperCase()}
\* COORD: {Math.floor(Math.random() * 90)}N {Math.floor(Math.random() * 180)}W
RenderCardOverlay(d) ==
    [refId |-> toUpperCase(substring(toString36(d.ref), 7)),
     lat |-> (d.lat * 90) \div 100,
     lon |-> (d.lon * 180) \div 100]

\* the Math.random() results (hundredths) a data string draws in a render
RandomDraws == {0, 99}

\* aperture glyph i: initial x and y in percent, duration in hundredths of a
\* second
ApertureProps(i) ==
    [x |-> i * 30 + 10, y |-> i * 20 + 20, duration |-> (25 + i * 5) * 100]

\* focus reticle i
FocusProps(i) ==
    [x |-> i * 25 + 5, y |-> i * 15 + 10, duration |-> (20 + i * 4) * 100]

\* variant: the odd strings start on the left
DataXOddLeft(i) == IF i % 2 # 0 THEN -10 ELSE 110

\* x: i % 2 === 0 ? "-10%" : "110%"
DataX(i) == IF i % 2 = 0 THEN -10 ELSE 110

\* data string i with the draws ry (initial y) and rd (duration):
\* y: Math.random() * 100 + "%", duration: 30 + Math.random() * 20
DataStringProps(i, ry, rd) ==
    [x |-> DataX(i), y |-> (ry * 100) \div 100, duration |-> 30 * 100 + rd * 20]

\* the JSX of BackgroundElements, evaluated with the draws ys and ds
RenderAperture == [k \in 1..3 |-> ApertureProps(k - 1)]

RenderFocus == [k \in 1..4 |-> FocusProps(k - 1)]

RenderDataStrings(ys, ds) ==
    [k \in 1..4 |-> DataStringProps(k - 1, ys[k], ds[k])]

InitRender ==
    /\ cardLayout = [c \in Cards |-> RenderLayout(c)]
    /\ cardOverlay = [c \in Cards |-> RenderCardOverlay(FirstDraw)]
    /\ aperture = RenderAperture
    /\ focus = RenderFocus
    /\ dataStrings = RenderDataStrings([k \in 1..4 |-> 0], [k \in 1..4 |-> 0])

\* Gallery renders again; draws[c] are the results of card c's three calls
\* of Math.random() in this render.
GalleryRender(draws) ==
    /\ cardLayout' = [c \in Cards |-> RenderLayout(c)]
    /\ cardOverlay' = [c \in Cards |-> RenderCardOverlay(draws[c])]
    /\ UNCHANGED <<aperture, focus, dataStrings, appVars, stageVars, viewVars>>

\* BackgroundElements is rendered; ys[k] and ds[k] are the results of data
\* string k's two calls of Math.random() in this render.
BackgroundRender(ys, ds) ==
    /\ aperture' = RenderAperture
    /\ focus' = RenderFocus
    /\ dataStrings' = RenderDataStrings(ys, ds)
    /\ UNCHANGED <<cardLayout, cardOverlay, appVars, stageVars, viewVars>>

-----------------------------------------------------------------------------
(* Specifications. *)

Init == InitApp /\ InitStage /\ InitView /\ InitRender

Next ==
    \/ AppMount
    \/ AppUnmount
    \/ IntroDelayElapsed
    \/ IntroFadeFinish
    \/ TimeAdvance
    \/ \E id \in timers : IntervalFire(id)
    \/ \E id \in listeners : \E cx \in PointerValues : \E cy \in PointerValues :
           MouseMove(id, [x |-> cx, y |-> cy])
    \/ Rerender

\* App with FlashIntro and HUD
Spec == Init /\ [][Next]_vars

NextTransform == \E q \in 0..ProgressOne : Scroll(q)

\* CameraStage's transforms over every scroll progress in [0, 1]
SpecTransform == Init /\ [][NextTransform]_vars

NextStage ==
    \/ \E q \in ScrollStops : Scroll(q)
    \/ Frame

\* CameraStage's springs; the frame loop keeps running while a spring moves
SpecStage == Init /\ [][NextStage]_vars /\ WF_vars(Frame)

-----------------------------------------------------------------------------
(* Properties of App, FlashIntro and HUD, checked under Spec. *)

\* C1: isLoaded starts false (at the first mount and at every later mount of
\* App); while App stays mounted it never goes from true to false, and it
\* changes only in the step in which FlashIntro's finished fade calls
\* onComplete - so it goes false -> true at most once.
C1_LoadedOnce ==
    /\ ~isLoaded
    /\ [][/\ mounts' # mounts => ~isLoaded'
          /\ mounts' = mounts =>
               /\ isLoaded => isLoaded'
               /\ isLoaded' # isLoaded =>
                    /\ onCompleteCalls' = onCompleteCalls + 1
                    /\ introAnim = "fading"
                    /\ introAnim' = "done"]_vars

\* C1 witness: the flag is true and clock ticks, pointer moves and re-renders
\* have taken place since.
C1_Witness ==
    /\ appMounted /\ isLoaded
    /\ ticks > 0 /\ renders > 0 /\ lastMove.seen

\* C2: a mounted FlashIntro calls onComplete at most once; the call is made
\* in the very step that finishes the fade, so the number of calls is 1 when
\* the fade has finished and 0 when it has not; no call is made while
\* FlashIntro is not rendered, whatever re-renders happen.
C2_OnCompleteOnce ==
    /\ [](/\ onCompleteCalls <= 1
          /\ onCompleteCalls = 1 <=> introAnim = "done")
    /\ [][mounts' = mounts =>
            /\ onCompleteCalls' # onCompleteCalls =>
                 /\ introMounted
                 /\ introAnim = "fading" /\ introAnim' = "done"
                 /\ onCompleteCalls' = onCompleteCalls + 1
            /\ ~introMounted => onCompleteCalls' = onCompleteCalls]_vars

\* C2 witness: the fade finished, the callback ran once, FlashIntro is gone
\* and App has rendered again afterwards.
C2_Witness ==
    /\ appMounted /\ introAnim = "done" /\ onCompleteCalls = 1
    /\ ~introMounted /\ renders > 0

\* C2 witness of the other branch: App was unmounted before the fade finished
\* and no call was made.
C2_WitnessNeverFinished ==
    ~appMounted /\ introAnim = "none" /\ onCompleteCalls = 0

\* C3: while App is mounted, isLoaded false goes with FlashIntro shown and
\* content target opacity 0, and isLoaded true goes with target opacity 1;
\* the target is never 1 unless onComplete has been called; once the fade has
\* finished the target is 1, and it stays 1 for as long as App stays mounted.
C3_IntroThenContent ==
    /\ [](/\ appMounted /\ ~isLoaded => introMounted /\ contentOpacity = 0
          /\ appMounted /\ isLoaded => ~introMounted /\ contentOpacity = 100
          /\ contentOpacity = 100 => onCompleteCalls >= 1
          /\ appMounted /\ introAnim = "done" => contentOpacity = 100)
    /\ [][contentOpacity = 100 /\ mounts' = mounts
            => contentOpacity' = 100]_vars

\* C3 witness: the content has reached target opacity 1 after the callback.
C3_Witness ==
    /\ appMounted /\ isLoaded /\ contentOpacity = 100
    /\ onCompleteCalls = 1 /\ ~introMounted

\* number of HUD instances mounted: App renders exactly one <HUD />
MountedHUDs == IF appMounted THEN 1 ELSE 0

\* C4: the number of live interval timers and the number of live mousemove
\* listeners each equal the number of mounted HUD instances, and the live
\* ones are those the mounted HUD created.
C4_NoLeakedSubscriptions ==
    /\ Cardinality(timers) = MountedHUDs
    /\ Cardinality(listeners) = MountedHUDs
    /\ appMounted => timers = {timer} /\ listeners = {handleMouseMove}

\* C4 witness: HUD has been mounted twice and unmounted twice.
C4_Witness == ~appMounted /\ mounts >= 2 /\ timers = {} /\ listeners = {}

\* C5: the clock string (state and rendered text) changes only in a step in
\* which an interval callback runs (or App is mounted afresh); each callback
\* run writes the current time once; pointer moves and re-renders leave it
\* alone; while HUD is unmounted no interval callback and no mousemove
\* listener runs.
C5_ClockPerTick ==
    [][/\ (time' # time \/ clockText' # clockText)
            => (ticks' = ticks + 1 \/ mounts' # mounts)
       /\ ticks' # ticks =>
            /\ ticks' = ticks + 1
            /\ appMounted
            /\ time' = toLocaleTimeString(now)
            /\ clockText' = time'
       /\ (~appMounted /\ ~appMounted') =>
            /\ ticks' = ticks
            /\ time' = time /\ clockText' = clockText
            /\ coords' = coords /\ lastMove' = lastMove]_vars

\* C5 witness: HUD was unmounted after a tick and the wall clock has moved on
\* without the clock string following it.
C5_Witness ==
    /\ ~appMounted /\ ticks >= 1
    /\ time # toLocaleTimeString(now)

\* C13: while the page is mounted - before, during and after the intro,
\* and also when onComplete is never called - the intro overlay has
\* pointer-events none whenever it is there, and the background, the HUD
\* and the six content sections are mounted; only FlashIntro is mounted or
\* unmounted with isLoaded.
C13_ContentAlwaysMounted ==
    /\ [](appMounted =>
            /\ {"BackgroundElements", "HUD", "CameraStage", "AboutSection",
                "SpecsSection", "Gallery", "ContactSection", "Footer"}
                   \subseteq tree
            /\ introPointerEvents # "auto"
            /\ "FlashIntro" \in tree => introPointerEvents = "none"
            /\ "FlashIntro" \in tree <=> ~isLoaded)
    /\ [][(appMounted /\ appMounted') =>
            tree' \ {"FlashIntro"} = tree \ {"FlashIntro"}]_vars

\* C13 witness: the callback has not been called, the overlay is up with
\* pointer-events none, the content is mounted and the pointer is tracked.
C13_Witness ==
    /\ appMounted /\ onCompleteCalls = 0 /\ ~isLoaded
    /\ "FlashIntro" \in tree /\ introPointerEvents = "none"
    /\ "Gallery" \in tree /\ "HUD" \in tree
    /\ lastMove.seen /\ renders > 0

\* the coordinate clamped to a non-negative integer
ClampNonNegative(n) == IF n < 0 THEN 0 ELSE n

\* C6: HUD's pointer coordinates are (0,0) while no mousemove has been
\* received since mount, and otherwise the coordinates of the most recent
\* event clamped to non-negative integers; a negative coordinate is displayed
\* as the zero default "0000".
C6_ClampedCoords ==
    appMounted =>
        IF ~lastMove.seen
        THEN coords = [x |-> 0, y |-> 0]
        ELSE /\ coords = [x |-> ClampNonNegative(lastMove.x),
                          y |-> ClampNonNegative(lastMove.y)]
             /\ lastMove.x < 0 =>
                  posX = <<"P", "O", "S", "_", "X", ":", " ", "0", "0", "0", "0">>
             /\ lastMove.y < 0 =>
                  posY = <<"P", "O", "S", "_", "Y", ":", " ", "0", "0", "0", "0">>

DigitValue(ch) ==
    CASE ch = "0" -> 0 [] ch = "1" -> 1 [] ch = "2" -> 2 [] ch = "3" -> 3
      [] ch = "4" -> 4 [] ch = "5" -> 5 [] ch = "6" -> 6 [] ch = "7" -> 7
      [] ch = "8" -> 8 [] ch = "9" -> 9

RECURSIVE ParseNat(_)
\* the number a string of decimal digits denotes
ParseNat(s) ==
    IF s = <<>> THEN 0
    ELSE 10 * ParseNat(SubSeq(s, 1, Len(s) - 1)) + DigitValue(s[Len(s)])

ParseInt(s) == IF s[1] = "-" THEN -ParseNat(Tail(s)) ELSE ParseNat(s)

\* number of characters of n written in decimal (|n| < 100000)
DecimalLength(n) ==
    LET a == IF n < 0 THEN -n ELSE n
        digits == IF a < 10 THEN 1 ELSE IF a < 100 THEN 2
                  ELSE IF a < 1000 THEN 3 ELSE IF a < 10000 THEN 4 ELSE 5
    IN  IF n < 0 THEN digits + 1 ELSE digits

\* text is the 7-character label followed by n in decimal, left-padded with
\* "0" to four characters
ShowsPadded(text, label, n) ==
    LET field == SubSeq(text, 8, Len(text))
        k     == DecimalLength(n)
        width == IF k < 4 THEN 4 ELSE k
        pad   == width - k
    IN  /\ SubSeq(text, 1, 7) = label
        /\ Len(field) = width
        /\ \A i \in 1..pad : field[i] = "0"
        /\ n > 0 => field[pad + 1] # "0"
        /\ n < 0 => field[pad + 1] = "-"
        /\ ParseInt(SubSeq(field, pad + 1, width)) = n

\* C7: after a mousemove with coordinates (x, y) the POS_X line is "POS_X: "
\* followed by x and the POS_Y line "POS_Y: " followed by y, each in decimal
\* left-padded with "0" to four characters ((512,300) gives 0512 and 0300);
\* each line is determined by the stored coordinate of its own axis.
C7_PaddedPosition ==
    appMounted =>
        /\ ShowsPadded(posX, <<"P", "O", "S", "_", "X", ":", " ">>, coords.x)
        /\ ShowsPadded(posY, <<"P", "O", "S", "_", "Y", ":", " ">>, coords.y)
        /\ lastMove.seen => coords.x = lastMove.x /\ coords.y = lastMove.y
        /\ (lastMove.seen /\ lastMove.x = 512 /\ lastMove.y = 300) =>
             /\ posX = <<"P", "O", "S", "_", "X", ":", " ", "0", "5", "1", "2">>
             /\ posY = <<"P", "O", "S", "_", "Y", ":", " ", "0", "3", "0", "0">>

\* C7 witness: the pointer has moved to (512,300) and HUD shows 0512 / 0300.
C7_Witness ==
    /\ appMounted /\ lastMove.seen /\ lastMove.x = 512 /\ lastMove.y = 300
    /\ posX = <<"P", "O", "S", "_", "X", ":", " ", "0", "5", "1", "2">>
    /\ posY = <<"P", "O", "S", "_", "Y", ":", " ", "0", "3", "0", "0">>

-----------------------------------------------------------------------------
(* Properties of CameraStage. *)

\* C8 (SpecTransform): for every scroll progress p in [0,1] the derived
\* opacity is 1 when p <= 0.8 and (1 - p) / 0.2 when p >= 0.8, which is 0 at
\* p = 1; scrolling further down never raises it.
C8_OpacityRamp ==
    /\ [](/\ scrollYProgress \in 0..100
          /\ scrollYProgress <= 80 => opacity = 1000
          /\ scrollYProgress >= 80 =>
               20 * opacity = 1000 * (100 - scrollYProgress)
          /\ scrollYProgress = 100 => opacity = 0)
    /\ [][scrollYProgress' >= scrollYProgress => opacity' <= opacity]_vars

\* C8 witness: half way down the ramp, p = 0.9 and opacity 0.5.
C8_Witness == scrollYProgress = 90 /\ opacity = 500 /\ scrolls > 0

\* C9 (SpecTransform): for every scroll progress p in [0,1] the raw values
\* are scale = 1 - 0.2 p, rotation = -5 p degrees and offset = -50 p, that is
\* (1, 0, 0) at p = 0 and (0.8, -5, -50) at p = 1.
C9_LinearTransforms ==
    /\ 100 * scale = 100 * 1000 - 200 * scrollYProgress
    /\ 100 * rotate = -5000 * scrollYProgress
    /\ 100 * y = -50000 * scrollYProgress
    /\ scrollYProgress = 0 => scale = 1000 /\ rotate = 0 /\ y = 0
    /\ scrollYProgress = 100 => scale = 800 /\ rotate = -5000 /\ y = -50000

\* C9 witness: scrolled to the end, and scrolled half way.
C9_Witness ==
    \/ scrollYProgress = 100 /\ scale = 800 /\ rotate = -5000 /\ y = -50000
                             /\ scrolls > 0
    \/ scrollYProgress = 50 /\ scale = 900 /\ rotate = -2500 /\ y = -25000

\* the springs rest on the raw values of the current scroll progress
Settled ==
    /\ springScale = scale * SubUnits
    /\ springRotate = rotate * SubUnits
    /\ springVel = <<0, 0>>
    /\ scrollYProgress = 100 =>
         /\ springScale = 800 * SubUnits
         /\ springRotate = -5000 * SubUnits
         /\ opacity = 0

\* C10 (SpecStage): scroll progress changes finitely often, and once it is
\* held the spring-smoothed scale and rotation reach the raw values for that
\* progress and stay there; held at p = 1 they end at scale 0.8 and rotation
\* -5 degrees, with opacity 0.
C10_SpringConverges == <>[]Settled

\* C10 witness: scrolled to p = 1 and both springs have come to rest there.
C10_Witness ==
    /\ scrollYProgress = 100 /\ scrolls > 0
    /\ springScale = 800 * SubUnits /\ springRotate = -5000 * SubUnits
    /\ springVel = <<0, 0>> /\ opacity = 0

NextBlocks == \E b \in Blocks : \E isIntersecting \in BOOLEAN :
                  BlockIntersect(b, isIntersecting)

\* CameraStage's text blocks scrolled into and out of view
SpecBlocks == Init /\ [][NextBlocks]_vars

NextGallery == \E i \in Cards : \E isIntersecting \in BOOLEAN :
                   CardIntersect(i, isIntersecting)

\* Gallery's cards scrolled into and out of view
SpecGallery == Init /\ [][NextGallery]_vars

NextPage ==
    \/ Next
    \/ \E q \in ScrollStops : Scroll(q)

\* App, FlashIntro and HUD while the page is scrolled
SpecPage == Init /\ [][NextPage]_vars

NextLayout == \E draws \in [Cards -> OverlayDraws] : GalleryRender(draws)

\* Gallery rendered again and again with fresh random overlay text
SpecLayout == Init /\ [][NextLayout]_vars

NextBackground ==
    \E ys \in [1..4 -> RandomDraws] : \E ds \in [1..4 -> RandomDraws] :
        BackgroundRender(ys, ds)

\* BackgroundElements rendered again and again
SpecBackground == Init /\ [][NextBackground]_vars

NextParallax ==
    \/ \E q \in 0..ProgressOne : Scroll(q)
    \/ \E i \in 0..6 : Hover(i)

\* Gallery's parallax over every scroll progress in [0, 1], with hovering
SpecParallax == Init /\ [][NextParallax]_vars

-----------------------------------------------------------------------------
(* Properties of the viewport-triggered reveals. *)

\* C11 (SpecBlocks): each text block of CameraStage plays its reveal at most
\* once, on its first entry into the viewport, and once revealed it does not
\* go back to its hidden initial state.
C11_BlockRevealOnce ==
    \A b \in Blocks :
        /\ blocks[b].plays <= 1
        /\ blocks[b].hasEnteredView => blocks[b].active

\* C12 (SpecGallery): each card's reveal is started at most once, in the step
\* of its first entry into the viewport; a revealed card stays revealed
\* through later leaves and entries; a step that reveals one card leaves every
\* other card as it was.
C12_CardRevealOnce ==
    /\ [](\A i \in Cards :
            /\ cards[i].plays <= 1
            /\ cards[i].active <=> cards[i].hasEnteredView
            /\ cards[i].active <=> cards[i].plays = 1
            /\ cards[i].active <=> cards[i].entries >= 1)
    /\ [][\A i \in Cards :
            /\ cards[i].active => cards'[i].active
            /\ cards'[i].plays # cards[i].plays =>
                 /\ cards[i].entries = 0 /\ cards'[i].entries = 1
                 /\ cards'[i].isInView
                 /\ \A j \in Cards \ {i} : cards'[j] = cards[j]]_vars

\* C12 witness: a card was revealed, left the viewport and came back, with
\* one play, while another card has not been in view yet.
C12_Witness ==
    \E i, j \in Cards :
        /\ cards[i].entries >= 2 /\ cards[i].isInView
        /\ cards[i].plays = 1 /\ cards[i].active
        /\ cards[j].entries = 0 /\ ~cards[j].active

\* C14 (SpecParallax): for every card i and every scroll progress p in
\* [0,1] the card's vertical offset is parallax_i * p with the factors -50,
\* 80, -30, 120, -60, 40 in order; it changes only when the scroll progress
\* changes, not when a card is hovered.
C14_ParallaxOffset ==
    /\ [](\A i \in 1..6 :
            100 * yOffset[i] =
                <<-50, 80, -30, 120, -60, 40>>[i] * 1000 * scrollYProgress)
    /\ [][yOffset' # yOffset => scrollYProgress' # scrollYProgress]_vars

\* C14 witness: half way down, with the fourth card hovered.
C14_Witness ==
    /\ scrollYProgress = 50 /\ hovered = 4
    /\ yOffset = <<-25000, 40000, -15000, 60000, -30000, 20000>>

\* C15 (SpecPage): within one mount, isLoaded is written only by
\* FlashIntro's completion handler, time only by HUD's interval callback and
\* coords only by HUD's mousemove handler; each of these steps leaves the
\* other two pieces unchanged, and none of the page's own actions changes
\* scrollYProgress, which moves only when the page is scrolled.
C15_SingleWriter ==
    [][(mounts' = mounts) =>
          /\ (isLoaded' # isLoaded) =>
                /\ onCompleteCalls' = onCompleteCalls + 1
                /\ time' = time /\ coords' = coords
          /\ (time' # time) =>
                /\ ticks' = ticks + 1
                /\ isLoaded' = isLoaded /\ coords' = coords
          /\ (coords' # coords) =>
                /\ lastMove' # lastMove /\ lastMove'.seen
                /\ isLoaded' = isLoaded /\ time' = time
          /\ (scrollYProgress' # scrollYProgress) =>
                /\ scrolls' = scrolls + 1
                /\ isLoaded' = isLoaded /\ time' = time /\ coords' = coords
          /\ (onCompleteCalls' # onCompleteCalls \/ ticks' # ticks
                \/ lastMove' # lastMove \/ renders' # renders
                \/ appMounted' # appMounted \/ now' # now) =>
                scrollYProgress' = scrollYProgress]_vars

\* C15 witness: all three writers have acted in one mount, and the page has
\* been scrolled.
C15_Witness ==
    /\ appMounted /\ isLoaded /\ onCompleteCalls = 1
    /\ ticks > 0 /\ time # <<>> /\ lastMove.seen /\ coords.x = 300
    /\ scrollYProgress = 50

\* C16 (SpecLayout): in every render each card's column span is 8 for
\* "large", 6 for "medium" and 4 otherwise, its left margin 0, 12 or 24 for
\* index mod 3 = 0, 1, 2 and its top margin -20 for odd and +20 for even
\* index (indices counted from 0); a render never changes a card's span or
\* margins, whatever overlay text it draws.
C16_LayoutByIndexAndSize ==
    /\ [](\A c \in 1..6 :
            /\ cardLayout[c].span = <<8, 4, 4, 8, 4, 6>>[c]
            /\ cardLayout[c].ml = <<0, 12, 24, 0, 12, 24>>[c]
            /\ cardLayout[c].mt = <<20, -20, 20, -20, 20, -20>>[c])
    /\ [][cardLayout' = cardLayout]_vars

\* C16 witness: a later render with three different overlay texts on the
\* first three cards.
C16_Witness ==
    /\ cardOverlay[1] = [refId |-> <<"Z", "Z", "K">>, lat |-> 89, lon |-> 178]
    /\ cardOverlay[2] = [refId |-> <<"Z", "A", "3">>, lat |-> 45, lon |-> 45]
    /\ cardOverlay[3] = [refId |-> <<>>, lat |-> 0, lon |-> 0]
    /\ cardLayout[1].span = 8 /\ cardLayout[2].mt = -20

\* C17 as stated (SpecBackground): in all three groups two renders give
\* every instance the same initial x and y, and only the data strings'
\* duration differs between renders.
C17_OffsetsDeterministic ==
    [][/\ \A k \in 1..3 : aperture'[k] = aperture[k]
       /\ \A k \in 1..4 : focus'[k] = focus[k]
       /\ \A k \in 1..4 : /\ dataStrings'[k].x = dataStrings[k].x
                          /\ dataStrings'[k].y = dataStrings[k].y]_vars

\* C17 amended (SpecBackground): the aperture glyphs and focus reticles have
\* initial x and y (and duration) fixed by their index, and so has the
\* initial x of the data strings (-10 for even, 110 for odd index); the data
\* strings' initial y (0 to below 100 percent) and duration (30 to below 50
\* seconds) are drawn anew in each render.
C17_DeterministicExceptDataY ==
    /\ [](/\ \A k \in 1..3 :
               /\ aperture[k].x = <<10, 40, 70>>[k]
               /\ aperture[k].y = <<20, 40, 60>>[k]
          /\ \A k \in 1..4 :
               /\ focus[k].x = <<5, 30, 55, 80>>[k]
               /\ focus[k].y = <<10, 25, 40, 55>>[k]
               /\ dataStrings[k].x = <<-10, 110, -10, 110>>[k]
               /\ dataStrings[k].y \in 0..99
               /\ dataStrings[k].duration \in 3000..4999)
    /\ [][/\ aperture' = aperture
          /\ focus' = focus
          /\ \A k \in 1..4 : dataStrings'[k].x = dataStrings[k].x]_vars

\* C17 witness: a render in which the first two data strings, both drawn
\* again, start at different heights and run for different durations.
C17_Witness ==
    /\ dataStrings[1].y = 99 /\ dataStrings[1].duration = 3000
    /\ dataStrings[2].y = 0 /\ dataStrings[2].duration = 4980
    /\ dataStrings[2].x = 110 /\ aperture[3].x = 70 /\ focus[4].y = 55

====
